---- MODULE Spec2Model ----
(***************************************************************************)
(* Credential lifecycle of auth-api-starter: the request handlers of       *)
(* src/src/controllers/authController.js, the error handler of             *)
(* src/middleware/errorHandler.js and the token utilities of               *)
(* src/src/utils/jwt.js, over a store with Prisma's semantics (unique      *)
(* e-mail, unique token value, delete-by-id raising P2025 on a missing     *)
(* row, $transaction rolling back as a unit).                              *)
(*                                                                         *)
(* Every await of a handler is an interleaving point: an action is the     *)
(* store call a handler is waiting for together with the synchronous code  *)
(* that follows it up to the next store call or the response.              *)
(***************************************************************************)
EXTENDS Integers, Sequences, FiniteSets, Bags, TLC

\* ------------------------------------------------------------------ bounds
MaxReq == 3          \* requests received in one behaviour
MaxInflight == 3     \* requests being handled at the same time
MaxEpoch == 1        \* the clock ranges over MaxEpoch+1 refresh lifetimes

\* --------------------------------------------------------------- constants
\* units table of parseDuration, milliseconds
UnitS == 1000
UnitM == 60 * 1000
UnitH == 60 * 60 * 1000
UnitD == 24 * 60 * 60 * 1000
DefaultDuration == 7 * 24 * 60 * 60 * 1000
MinPasswordLength == 8

\* ------------------------------------------------------------------ inputs
Digits == {"0", "1", "2", "3", "4", "5", "6", "7", "8", "9"}

\* e-mails and passwords are sequences of one-character strings
EmailLowerA == <<"a", "@", "x", ".", "y">>
EmailUpperA == <<"A", "@", "x", ".", "y">>
EmailB == <<"b", "@", "x", ".", "y">>
Emails == {EmailLowerA, EmailUpperA, EmailB}

Pw1 == <<"p", "a", "s", "s", "w", "o", "r", "1">>
Pw2 == <<"p", "a", "s", "s", "w", "o", "r", "2">>
Passwords == {Pw1, Pw2}

\* long-lived token values: "" is the empty string, every other value is a
\* string; uuidv4() values are written as positive numbers, Forged is a
\* value no uuidv4() call returns
EmptyToken == 0
Forged == -1

\* configured REFRESH_TOKEN_EXPIRES_IN (a duration string)
RefreshExpiresIn == <<"1", "s">>

\* configured JWT_EXPIRES_IN and JWT_SECRET
JwtExpiresIn == <<"1", "s">>
JwtSecret == "secret"

\* the empty string where a token string is expected
Blank == [id |-> 0, email |-> <<>>, iat |-> 0, exp |-> 0, sig |-> ""]

\* users, tokens: the rows of the User and RefreshToken tables
\* nextUuid: the number of uuidv4() values handed out so far
\* req: per request being handled, its body and the handler's position and
\*      locals
\* done: the requests answered, each with its body and header, the clock
\*      readings its checks were made with and the response sent
\* nreq: the number of requests received
\* removed: the log of the RefreshToken rows deleted, each token value with the
\*      operation that deleted it (history, read by no handler)
\* calls: the number of store calls made (history, read by no handler)
VARIABLES users, tokens, nextUuid, req, done, nreq, removed, calls, config

vars == <<users, tokens, nextUuid, req, done, nreq, removed, calls, config>>

Slots == 1..MaxInflight

NoRec == [id |-> 0]
NoRes == [status |-> 0, message |-> "", user |-> NoRec, rt |-> EmptyToken, at |-> NoRec]
NoUser == [id |-> 0, email |-> <<>>]

\* ---------------------------------------------------------- pure functions
\* mutant of LowerChar: the e-mail is used as typed
LowerCharAsTyped(c) == c

\* String.prototype.toLowerCase on the characters of the input alphabet
LowerChar(c) ==
  CASE c = "A" -> "a"
    [] c = "B" -> "b"
    [] OTHER -> c

\* mutant of toLowerCase: the string is returned as it is
toLowerCaseAsTyped(s) == s

toLowerCase(s) == [i \in 1..Len(s) |-> LowerChar(s[i])]

DigitVal(c) ==
  CASE c = "0" -> 0 [] c = "1" -> 1 [] c = "2" -> 2 [] c = "3" -> 3
    [] c = "4" -> 4 [] c = "5" -> 5 [] c = "6" -> 6 [] c = "7" -> 7
    [] c = "8" -> 8 [] c = "9" -> 9 [] OTHER -> 0

RECURSIVE parseInt(_)
parseInt(ds) ==
  IF Len(ds) = 0 THEN 0
  ELSE 10 * parseInt(SubSeq(ds, 1, Len(ds) - 1)) + DigitVal(ds[Len(ds)])

UnitOf(u) ==
  CASE u = "s" -> UnitS
    [] u = "m" -> UnitM
    [] u = "h" -> UnitH
    [] u = "d" -> UnitD

\* duration.match(/^(\d+)([smhd])$/)
DurationMatches(d) ==
  /\ Len(d) >= 2
  /\ d[Len(d)] \in {"s", "m", "h", "d"}
  /\ \A i \in 1..(Len(d) - 1) : d[i] \in Digits

parseDuration(d) ==
  IF ~DurationMatches(d) THEN DefaultDuration
  ELSE parseInt(SubSeq(d, 1, Len(d) - 1)) * UnitOf(d[Len(d)])

\* mutant of getRefreshTokenExpiry: the lifetime is counted from the start
\* of the clock
getRefreshTokenExpiryFromStart(t) == parseDuration(config.refreshExpiresIn)

\* new Date(Date.now() + parseDuration(config.jwt.refreshExpiresIn)); t is
\* the value Date.now() returns
getRefreshTokenExpiry(t) == t + parseDuration(config.refreshExpiresIn)

\* the values new Date() and Date.now() can return: the start, and both
\* sides of every expiry; the clock can be adjusted, also backwards, between
\* two reads
ClockValues ==
  {0} \cup {e * parseDuration(RefreshExpiresIn) + j : e \in 1..MaxEpoch, j \in 0..1}

\* bcrypt.hash / bcrypt.compare
bcryptHash(pw) == <<"bcrypt", pw>>
bcryptCompare(pw, hash) == hash = <<"bcrypt", pw>>

\* a signed token string is written as the record of its payload and of the
\* key that signed it; jwt.sign(payload, secret, {expiresIn}) stamps iat and
\* exp in whole seconds
generateAccessToken(id, email, t) ==
  [id |-> id, email |-> email, iat |-> t \div UnitS,
   exp |-> (t \div UnitS) + (parseDuration(JwtExpiresIn) \div UnitS),
   sig |-> JwtSecret]

\* mutant of verifyAccessToken: a token is accepted only while its owner has
\* a session in the store
verifyWithSession(token, now) ==
  IF token.sig # JwtSecret \/ ~\E t \in tokens : t.userId = token.id
  THEN [ok |-> FALSE, name |-> "JsonWebTokenError", decoded |-> token]
  ELSE IF now \div UnitS >= token.exp
  THEN [ok |-> FALSE, name |-> "TokenExpiredError", decoded |-> token]
  ELSE [ok |-> TRUE, name |-> "", decoded |-> token]

\* jwt.verify(token, secret) at clock reading now: the signature is checked
\* first, then the expiry; the error is thrown by name
verifyAccessToken(token, now) ==
  IF token.sig # JwtSecret
  THEN [ok |-> FALSE, name |-> "JsonWebTokenError", decoded |-> token]
  ELSE IF now \div UnitS >= token.exp
  THEN [ok |-> FALSE, name |-> "TokenExpiredError", decoded |-> token]
  ELSE [ok |-> TRUE, name |-> "", decoded |-> token]

\* an Authorization header is written as authHeader.split(' '): the scheme
\* word followed by the words after each space; NoHeader is the absent header
NoHeader == <<>>
startsWithBearer(h) == Len(h) >= 2 /\ h[1] = "Bearer"

\* --------------------------------------------------------------- the store
\* prisma.user.findUnique({where: {email}})
FindUserByEmail(us, email) ==
  IF \E u \in us : u.email = email
  THEN CHOOSE u \in us : u.email = email
  ELSE NoRec

FindUserById(us, id) ==
  IF \E u \in us : u.id = id
  THEN CHOOSE u \in us : u.id = id
  ELSE NoRec

\* prisma.refreshToken.findUnique({where: {token}, include: {user: true}})
FindToken(ts, token) ==
  IF \E t \in ts : t.token = token
  THEN CHOOSE t \in ts : t.token = token
  ELSE NoRec

TokenRecord(token, userId, expiresAt) ==
  [id |-> token, token |-> token, userId |-> userId, expiresAt |-> expiresAt]

\* ---------------------------------------------------------------- responses
\* errorResponse(res, message, statusCode)
errorResponse(message, status) ==
  [status |-> status, message |-> message, user |-> NoRec, rt |-> EmptyToken,
   at |-> NoRec]

\* successResponse(res, data, message, statusCode), data being
\* {user, accessToken, refreshToken}, a part of it, or null
successResponse(user, at, rt, message, status) ==
  [status |-> status, message |-> message, user |-> user, rt |-> rt, at |-> at]

\* mutant of PublicFields: the whole row is selected
AllFields == {"id", "email", "password", "firstName", "lastName", "isActive"}

\* the columns named by select: {...} in register and getMe, and copied into
\* userResponse by login (createdAt and updatedAt, set by the database, are
\* not modelled)
PublicFields == {"id", "email", "firstName", "lastName", "isActive"}

\* the object a query with select returns for row u
Select(u) == [f \in PublicFields |-> u[f]]

\* lines 178-186: userResponse, built from the row read by login
userResponse(user) ==
  [id |-> user.id, email |-> user.email, firstName |-> user.firstName,
   lastName |-> user.lastName, isActive |-> user.isActive]

\* ------------------------------------------------------------------ guards
\* the outcome of a middleware: the identity set on the request, the number
\* of calls of next(), the response sent if any
Denied(message) ==
  [user |-> NoUser, next |-> 0, res |-> errorResponse(message, 401)]
Passed(user) == [user |-> user, next |-> 1, res |-> NoRes]

\* authenticate(req, res, next) on header h at clock reading now
authenticate(h, now) ==
  IF h = NoHeader \/ h = <<"">> THEN Denied("Access token is required")
  ELSE IF ~startsWithBearer(h)
  THEN Denied("Invalid token format. Use: Bearer <token>")
  ELSE LET token == h[2]
       IN IF token = Blank THEN Denied("Access token is required")
          ELSE LET v == verifyAccessToken(token, now)
               IN IF v.ok
                  THEN Passed([id |-> v.decoded.id, email |-> v.decoded.email])
                  ELSE IF v.name = "TokenExpiredError"
                  THEN Denied("Access token has expired")
                  ELSE IF v.name = "JsonWebTokenError"
                  THEN Denied("Invalid access token")
                  ELSE Denied("Authentication failed")

\* mutant of optionalAuth: a failed verification ends the request
optionalAuthStrict(h, now) == authenticate(h, now)

\* optionalAuth(req, res, next) on header h at clock reading now
optionalAuth(h, now) ==
  IF h # NoHeader /\ h # <<"">> /\ startsWithBearer(h)
  THEN LET v == verifyAccessToken(h[2], now)
       IN IF v.ok
          THEN Passed([id |-> v.decoded.id, email |-> v.decoded.email])
          ELSE Passed(NoUser)
  ELSE Passed(NoUser)

\* errors thrown by the Prisma client
P2002 == [code |-> "P2002", name |-> "PrismaClientKnownRequestError",
          message |-> "Unique constraint failed", statusCode |-> 0]
P2025 == [code |-> "P2025", name |-> "PrismaClientKnownRequestError",
          message |-> "Record to delete does not exist", statusCode |-> 0]
StoreDown == [code |-> "P1001", name |-> "PrismaClientInitializationError",
              message |-> "Can't reach database server", statusCode |-> 0]

\* the global error handler, reached through next(error)
errorHandler(err) ==
  LET s0 == IF err.statusCode # 0 THEN err.statusCode ELSE 500
      m0 == IF err.message # "" THEN err.message ELSE "Internal Server Error"
      r1 == IF err.code = "P2002"
            THEN <<409, "A record with this value already exists">>
            ELSE <<s0, m0>>
      r2 == IF err.code = "P2025" THEN <<404, "Record not found">> ELSE r1
      r3 == IF err.name = "ValidationError" THEN <<400, err.message>> ELSE r2
      r4 == IF err.name = "JsonWebTokenError" THEN <<401, "Invalid token">> ELSE r3
      r5 == IF err.name = "TokenExpiredError" THEN <<401, "Token expired">> ELSE r4
  IN errorResponse(r5[2], r5[1])

\* mutant of CreateUser: no unique index on email
CreateUserNoIndex(us, email, password) ==
  LET u == [id |-> Cardinality(us) + 1, email |-> email,
            password |-> password, firstName |-> "null", lastName |-> "null",
            isActive |-> TRUE]
  IN [ok |-> TRUE, err |-> P2002, users |-> us \cup {u}, user |-> u]

\* prisma.user.create: the unique index on email decides, atomically
CreateUser(us, email, password) ==
  IF \E u \in us : u.email = email
  THEN [ok |-> FALSE, err |-> P2002, users |-> us, user |-> NoRec]
  ELSE LET u == [id |-> Cardinality(us) + 1, email |-> email,
                 password |-> password, firstName |-> "null",
                 lastName |-> "null", isActive |-> TRUE]
       IN [ok |-> TRUE, err |-> P2002, users |-> us \cup {u}, user |-> u]

\* prisma.refreshToken.delete({where: {id}}): P2025 when no row has this id
DeleteTokenById(ts, id) ==
  IF \E t \in ts : t.id = id
  THEN [ok |-> TRUE, err |-> P2025, tokens |-> {t \in ts : t.id # id}]
  ELSE [ok |-> FALSE, err |-> P2025, tokens |-> ts]

\* mutant of CreateToken: the write is reported done and is lost
CreateTokenLost(ts, rec) == [ok |-> TRUE, err |-> P2002, tokens |-> ts]

\* prisma.refreshToken.create: the unique index on token decides
CreateToken(ts, rec) ==
  IF \E t \in ts : t.token = rec.token
  THEN [ok |-> FALSE, err |-> P2002, tokens |-> ts]
  ELSE [ok |-> TRUE, err |-> P2002, tokens |-> ts \cup {rec}]

\* mutant of Transaction: the old row is deleted with deleteMany, which does
\* not fail when the row is already gone
TransactionDeleteMany(ts, oldId, rec, fault) ==
  [ok |-> TRUE, err |-> P2025, tokens |-> {t \in ts : t.id # oldId} \cup {rec}]

\* mutant of Transaction: every row of the owner of the old row is deleted
TransactionDropsOwner(ts, oldId, rec, fault) ==
  IF \E t \in ts : t.id = oldId
  THEN [ok |-> TRUE, err |-> P2025,
        tokens |-> {t \in ts : t.userId # rec.userId} \cup {rec}]
  ELSE [ok |-> FALSE, err |-> P2025, tokens |-> ts]

\* mutant of Transaction: the new row is created and the old one is kept
TransactionKeepsOld(ts, oldId, rec, fault) ==
  IF \E t \in ts : t.id = oldId
  THEN [ok |-> TRUE, err |-> P2025, tokens |-> ts \cup {rec}]
  ELSE [ok |-> FALSE, err |-> P2025, tokens |-> ts]

\* mutant of Transaction: the statements run outside a transaction, so a
\* failure of the create leaves the delete applied
TransactionNoRollback(ts, oldId, rec, fault) ==
  LET d == IF fault = "delete"
           THEN [ok |-> FALSE, err |-> StoreDown, tokens |-> ts]
           ELSE DeleteTokenById(ts, oldId)
      c == IF fault = "create"
           THEN [ok |-> FALSE, err |-> StoreDown, tokens |-> d.tokens]
           ELSE CreateToken(d.tokens, rec)
  IN IF ~d.ok THEN [ok |-> FALSE, err |-> d.err, tokens |-> ts]
     ELSE IF ~c.ok THEN [ok |-> FALSE, err |-> c.err, tokens |-> d.tokens]
     ELSE [ok |-> TRUE, err |-> c.err, tokens |-> c.tokens]

\* prisma.$transaction([delete old, create new]): the statements run in
\* order inside one database transaction; the first failure rolls back.
\* fault names the statement the database fails on, if any
Transaction(ts, oldId, rec, fault) ==
  LET d == IF fault = "delete"
           THEN [ok |-> FALSE, err |-> StoreDown, tokens |-> ts]
           ELSE DeleteTokenById(ts, oldId)
      c == IF fault = "create"
           THEN [ok |-> FALSE, err |-> StoreDown, tokens |-> d.tokens]
           ELSE CreateToken(d.tokens, rec)
  IN IF ~d.ok THEN [ok |-> FALSE, err |-> d.err, tokens |-> ts]
     ELSE IF ~c.ok THEN [ok |-> FALSE, err |-> c.err, tokens |-> ts]
     ELSE [ok |-> TRUE, err |-> c.err, tokens |-> c.tokens]

\* new Date() > storedToken.expiresAt
IsExpired(now, expiresAt) == now > expiresAt

\* mutant of DeleteManyByToken: nothing is deleted
DeleteManyByTokenNone(ts, token) == ts

\* mutant of DeleteManyByToken: the sessions of the token's owner are deleted
DeleteManyByTokenOwner(ts, token) ==
  {t \in ts : \A o \in ts : o.token = token => t.userId # o.userId}

\* prisma.refreshToken.deleteMany({where: {token}})
DeleteManyByToken(ts, token) == {t \in ts : t.token # token}

\* mutant of DeleteManyByUser: the rows of every user are deleted
DeleteManyOfAll(ts, userId) == {}

\* mutant of DeleteManyByUser: one row of the user is deleted
DeleteOneByUser(ts, userId) ==
  IF \E t \in ts : t.userId = userId
  THEN ts \ {CHOOSE t \in ts : t.userId = userId}
  ELSE ts

\* prisma.refreshToken.deleteMany({where: {userId}})
DeleteManyByUser(ts, userId) == {t \in ts : t.userId # userId}

\* ----------------------------------------------------------------- requests
Idle ==
  [op |-> "none", email |-> <<>>, pw |-> <<>>, tok |-> EmptyToken,
   hdr |-> NoHeader, sec |-> 0, uid |-> 0, who |-> NoUser, next |-> 0,
   live |-> 0,
   pc |-> "idle", t |-> 0, snap |-> NoRec, at |-> NoRec, newTok |-> EmptyToken,
   exp |-> 0]

\* a request can arrive while fewer than MaxInflight are being handled; it
\* takes the first free slot
CanArrive(r) ==
  /\ nreq < MaxReq
  /\ req[r].pc = "idle"
  /\ \A q \in Slots : q < r => req[q].pc # "idle"

Answered == BagToSet(done)

\* the long-lived token values a client can hold: the ones sent in a
\* response, and the ones of the sessions that exist at start
SeedTokens == {1, 2}
HeldTokens == SeedTokens \cup {e.res.rt : e \in {d \in Answered : d.res.rt # EmptyToken}}

TokenInputs == {EmptyToken, Forged} \cup HeldTokens

\* the short-lived tokens a client can hold: the ones sent in a response,
\* and the one issued with the sessions that exist at start
SeedAccess == generateAccessToken(1, EmailB, 0)
HeldAccess == {SeedAccess} \cup {e.res.at : e \in {d \in Answered : d.res.at # NoRec}}

\* the headers a client of this API sends
SessionHeaders == {NoHeader} \cup {<<"Bearer", a>> : a \in HeldAccess}

\* short-lived tokens from elsewhere: one signed with another key, one
\* issued later, one of an account removed from the database since
ForgedAccess == [SeedAccess EXCEPT !.sig = "other", !.exp = 9]
LateAccess == generateAccessToken(1, EmailB, parseDuration(JwtExpiresIn))
OrphanAccess == generateAccessToken(9, EmailLowerA, parseDuration(JwtExpiresIn))

\* header values of every shape the guards tell apart
AllHeaders ==
  {NoHeader, <<"">>, <<"Bearer">>, <<"Basic", SeedAccess>>,
   <<"bearer", SeedAccess>>, <<"Bearer", Blank>>, <<"Bearer", SeedAccess>>,
   <<"Bearer", LateAccess>>, <<"Bearer", LateAccess, Blank>>,
   <<"Bearer", LateAccess, SeedAccess>>, <<"Bearer", Blank, LateAccess>>,
   <<"Bearer", ForgedAccess>>, <<"Bearer", OrphanAccess>>}

\* the response of request q is sent
Send(q, res) ==
  done' = done (+) SetToBag({[op |-> q.op, email |-> q.email, pw |-> q.pw,
                              tok |-> q.tok, hdr |-> q.hdr, sec |-> q.sec,
                              uid |-> q.uid, who |-> q.who, next |-> q.next,
                              live |-> q.live, t |-> q.t,
                              res |-> res]})

\* request q arrives in slot r and runs up to its first await that another
\* request can interleave with, or up to its response
Arrive(r, q, answered, res) ==
  /\ nreq' = nreq + 1
  /\ IF answered
     THEN Send(q, res) /\ UNCHANGED req
     ELSE req' = [req EXCEPT ![r] = q] /\ UNCHANGED done

\* the handler in slot r sends its response and returns
Respond(r, res) ==
  /\ Send(req[r], res)
  /\ req' = [req EXCEPT ![r] = Idle]
  /\ UNCHANGED nreq

\* the rows of ts missing from ts2 are logged as deleted by operation by
LogRemoved(ts, ts2, by) ==
  removed' = removed \cup {<<t.token, by>> : t \in ts \ ts2}

\* the database outlives the process: at start it holds one account, active
\* or deactivated, with two sessions opened by two logins at time 0
Start(refreshExpiresIn) ==
  /\ config = [refreshExpiresIn |-> refreshExpiresIn]
  /\ \E active \in BOOLEAN :
       users = {[id |-> 1, email |-> EmailB, password |-> bcryptHash(Pw1),
                 firstName |-> "null", lastName |-> "null",
                 isActive |-> active]}
  /\ tokens = {TokenRecord(v, 1, getRefreshTokenExpiry(0)) : v \in SeedTokens}
  /\ nextUuid = Cardinality(SeedTokens)
  /\ req = [r \in Slots |-> Idle]
  /\ done = EmptyBag
  /\ nreq = 0
  /\ removed = {}
  /\ calls = 0

\* the process is started with the lifetime of the deployment
Init == Start(RefreshExpiresIn)

\* ----------------------------------------------------------------- register
IsSpace(c) == c = " " \/ c = "\t" \/ c = "\n"

\* /^[^\s@]+@[^\s@]+\.[^\s@]+$/.test(email)
emailRegexTest(e) ==
  /\ \A i \in 1..Len(e) : ~IsSpace(e[i])
  /\ Cardinality({i \in 1..Len(e) : e[i] = "@"}) = 1
  /\ \E i \in 2..Len(e) :
       /\ e[i] = "@"
       /\ \E j \in (i + 2)..(Len(e) - 1) : e[j] = "."

\* mutant of RegisterInvalid: the password length is not checked
RegisterInvalidNoLength(email, pw) ==
  IF Len(email) = 0 \/ Len(pw) = 0 THEN "Email and password are required"
  ELSE IF ~emailRegexTest(email) THEN "Invalid email format"
  ELSE ""

\* lines 58-74: the checks made before the first store call
RegisterInvalid(email, pw) ==
  IF Len(email) = 0 \/ Len(pw) = 0 THEN "Email and password are required"
  ELSE IF ~emailRegexTest(email) THEN "Invalid email format"
  ELSE IF Len(pw) < MinPasswordLength
       THEN "Password must be at least 8 characters long"
  ELSE ""

\* the request arrives with a body of bodies; lines 58-83: validation,
\* prisma.user.findUnique and the pre-check
RegisterFindOver(r, bodies) ==
  /\ CanArrive(r)
  /\ \E b \in bodies :
       LET email == b[1]
           pw == b[2]
           q == [Idle EXCEPT !.op = "register", !.email = email, !.pw = pw]
           bad == RegisterInvalid(email, pw)
           existingUser == FindUserByEmail(users, toLowerCase(email))
       IN IF bad # ""
          THEN /\ Arrive(r, q, TRUE, errorResponse(bad, 400))
               /\ calls' = calls
          ELSE /\ calls' = calls + 1
               /\ IF existingUser.id # 0
                  THEN Arrive(r, q, TRUE,
                              errorResponse("User with this email already exists", 409))
                  ELSE Arrive(r, [q EXCEPT !.pc = "reg_create"], FALSE, NoRes)
  /\ UNCHANGED <<users, tokens, nextUuid, removed, config>>

RegisterFind(r) == RegisterFindOver(r, Emails \X {Pw1})

\* lines 85-109: prisma.user.create, then the tokens are generated
RegisterCreate(r) ==
  /\ req[r].pc = "reg_create"
  /\ calls' = calls + 1
  /\ \E now \in ClockValues :
     LET c == CreateUser(users, toLowerCase(req[r].email), bcryptHash(req[r].pw))
     IN IF ~c.ok
        THEN /\ Respond(r, errorHandler(c.err))
             /\ UNCHANGED <<users, nextUuid>>
        ELSE /\ users' = c.users
             /\ nextUuid' = nextUuid + 1
             /\ req' = [req EXCEPT ![r].pc = "reg_token", ![r].snap = Select(c.user),
                          ![r].at = generateAccessToken(c.user.id, c.user.email, now),
                          ![r].newTok = nextUuid + 1, ![r].t = now,
                          ![r].exp = getRefreshTokenExpiry(now)]
             /\ UNCHANGED <<done, nreq>>
  /\ UNCHANGED <<tokens, removed, config>>

\* lines 111-124: prisma.refreshToken.create, then the response
RegisterToken(r) ==
  /\ req[r].pc = "reg_token"
  /\ calls' = calls + 1
  /\ LET c == CreateToken(tokens, TokenRecord(req[r].newTok, req[r].snap.id, req[r].exp))
     IN IF ~c.ok
        THEN /\ Respond(r, errorHandler(c.err))
             /\ UNCHANGED tokens
        ELSE /\ tokens' = c.tokens
             /\ Respond(r, successResponse(req[r].snap, req[r].at, req[r].newTok,
                                           "User registered successfully", 201))
  /\ UNCHANGED <<users, nextUuid, removed, config>>

\* -------------------------------------------------------------------- login
\* the request arrives with a body of bodies; lines 137-167: validation,
\* prisma.user.findUnique, the checks on the row read, the tokens generated
LoginFindOver(r, bodies) ==
  /\ CanArrive(r)
  /\ \E b \in bodies, now \in ClockValues :
       LET email == b[1]
           pw == b[2]
           q == [Idle EXCEPT !.op = "login", !.email = email, !.pw = pw]
           user == FindUserByEmail(users, toLowerCase(email))
       IN IF Len(email) = 0 \/ Len(pw) = 0
          THEN /\ Arrive(r, q, TRUE, errorResponse("Email and password are required", 400))
               /\ UNCHANGED <<nextUuid, calls>>
          ELSE /\ calls' = calls + 1
               /\ IF user.id = 0
                  THEN /\ Arrive(r, q, TRUE, errorResponse("Invalid email or password", 401))
                       /\ UNCHANGED nextUuid
                  ELSE IF ~user.isActive
                  THEN /\ Arrive(r, q, TRUE, errorResponse("Account is deactivated", 403))
                       /\ UNCHANGED nextUuid
                  ELSE IF ~bcryptCompare(pw, user.password)
                  THEN /\ Arrive(r, q, TRUE, errorResponse("Invalid email or password", 401))
                       /\ UNCHANGED nextUuid
                  ELSE /\ Arrive(r, [q EXCEPT !.pc = "login_token", !.snap = user, !.t = now,
                                       !.at = generateAccessToken(user.id, user.email, now),
                                       !.newTok = nextUuid + 1,
                                       !.exp = getRefreshTokenExpiry(now)], FALSE, NoRes)
                       /\ nextUuid' = nextUuid + 1
  /\ UNCHANGED <<users, tokens, removed, config>>

LoginFind(r) == LoginFindOver(r, Emails \X Passwords)

\* lines 169-192: prisma.refreshToken.create, then the response
LoginToken(r) ==
  /\ req[r].pc = "login_token"
  /\ calls' = calls + 1
  /\ LET c == CreateToken(tokens, TokenRecord(req[r].newTok, req[r].snap.id, req[r].exp))
     IN IF ~c.ok
        THEN /\ Respond(r, errorHandler(c.err))
             /\ UNCHANGED tokens
        ELSE /\ tokens' = c.tokens
             /\ Respond(r, successResponse(userResponse(req[r].snap), req[r].at,
                                           req[r].newTok, "Login successful", 200))
  /\ UNCHANGED <<users, nextUuid, removed, config>>

\* ------------------------------------------------------------------ refresh
\* the request arrives; lines 205-242: prisma.refreshToken.findUnique with
\* the owner joined, then the checks on the row read up to the next store call
RefreshFind(r) ==
  /\ CanArrive(r)
  /\ \E tok \in TokenInputs, now \in ClockValues :
       LET q == [Idle EXCEPT !.op = "refresh", !.tok = tok]
           storedToken == FindToken(tokens, tok)
           user == FindUserById(users, storedToken.userId)
       IN IF tok = EmptyToken
          THEN /\ Arrive(r, q, TRUE, errorResponse("Refresh token is required", 400))
               /\ UNCHANGED <<nextUuid, calls>>
          ELSE /\ calls' = calls + 1
               /\ IF storedToken.id = 0
                  THEN /\ Arrive(r, q, TRUE, errorResponse("Invalid refresh token", 401))
                       /\ UNCHANGED nextUuid
                  ELSE IF IsExpired(now, storedToken.expiresAt)
                  THEN /\ Arrive(r, [q EXCEPT !.pc = "ref_delete", !.snap = storedToken,
                                       !.t = now], FALSE, NoRes)
                       /\ UNCHANGED nextUuid
                  ELSE IF ~user.isActive
                  THEN /\ Arrive(r, [q EXCEPT !.t = now], TRUE,
                                errorResponse("Account is deactivated", 403))
                       /\ UNCHANGED nextUuid
                  ELSE /\ Arrive(r, [q EXCEPT !.pc = "ref_tx", !.snap = storedToken, !.t = now,
                                       !.at = generateAccessToken(user.id, user.email, now),
                                       !.newTok = nextUuid + 1,
                                       !.exp = getRefreshTokenExpiry(now)], FALSE, NoRes)
                       /\ nextUuid' = nextUuid + 1
  /\ UNCHANGED <<users, tokens, removed, config>>

\* lines 224-227: the expired row is deleted by id, then the response
RefreshDelete(r) ==
  /\ req[r].pc = "ref_delete"
  /\ calls' = calls + 1
  /\ LET d == DeleteTokenById(tokens, req[r].snap.id)
     IN IF ~d.ok
        THEN /\ Respond(r, errorHandler(d.err))
             /\ UNCHANGED <<tokens, removed>>
        ELSE /\ tokens' = d.tokens
             /\ LogRemoved(tokens, d.tokens, "expired")
             /\ Respond(r, errorResponse("Refresh token has expired", 401))
  /\ UNCHANGED <<users, nextUuid, config>>

\* lines 244-260: the rotation transaction, then the response
Rotate(r, fault) ==
  /\ req[r].pc = "ref_tx"
  /\ calls' = calls + 1
  /\ LET x == Transaction(tokens, req[r].snap.id,
                          TokenRecord(req[r].newTok, req[r].snap.userId, req[r].exp),
                          fault)
     IN /\ tokens' = x.tokens
        /\ LogRemoved(tokens, x.tokens, "rotate")
        /\ IF ~x.ok
           THEN Respond(r, errorHandler(x.err))
           ELSE Respond(r, successResponse(NoRec, req[r].at, req[r].newTok,
                                           "Token refreshed successfully", 200))
  /\ UNCHANGED <<users, nextUuid, config>>

RefreshRotate(r) == Rotate(r, "none")

\* the same step when the database fails on one statement of the transaction
RefreshRotateFault(r) == \E fault \in {"delete", "create"} : Rotate(r, fault)

\* ------------------------------------------------------------------- logout
\* the request arrives; lines 273-284:
\* prisma.refreshToken.deleteMany({where: {token}}), then the response
logout(r) ==
  /\ CanArrive(r)
  /\ \E tok \in TokenInputs :
       LET q == [Idle EXCEPT !.op = "logout", !.tok = tok]
       IN IF tok = EmptyToken
          THEN /\ Arrive(r, q, TRUE, errorResponse("Refresh token is required", 400))
               /\ UNCHANGED <<tokens, removed, calls>>
          ELSE /\ Arrive(r, q, TRUE, successResponse(NoRec, NoRec, EmptyToken,
                                                     "Logged out successfully", 200))
               /\ tokens' = DeleteManyByToken(tokens, tok)
               /\ LogRemoved(tokens, DeleteManyByToken(tokens, tok), "logout")
               /\ calls' = calls + 1
  /\ UNCHANGED <<users, nextUuid, config>>

\* ---------------------------------------------------------- guarded routes
\* the request as it leaves authenticate: the header it carried, the clock
\* second the guard read, the identity set on it, and (history) the number
\* of sessions the owner named by its token had in the store at that time
Guarded(op, h, now) ==
  LET g == authenticate(h, now)
  IN [Idle EXCEPT !.op = op, !.hdr = h, !.sec = now \div UnitS,
                  !.uid = g.user.id, !.who = g.user, !.next = g.next,
                  !.live = Cardinality({t \in tokens :
                                          Len(h) >= 2 /\ t.userId = h[2].id})]

\* the request arrives with a header of headers and passes authenticate;
\* lines 297-304: prisma.refreshToken.deleteMany({where: {userId}}) with
\* req.user.id, then the response
logoutAllOver(r, headers) ==
  /\ CanArrive(r)
  /\ \E h \in headers, now \in ClockValues :
       LET g == authenticate(h, now)
           q == Guarded("logoutAll", h, now)
       IN IF g.next = 0
          THEN /\ Arrive(r, q, TRUE, g.res)
               /\ UNCHANGED <<tokens, removed, calls>>
          ELSE /\ Arrive(r, q, TRUE,
                         successResponse(NoRec, NoRec, EmptyToken,
                                         "Logged out from all devices successfully", 200))
               /\ tokens' = DeleteManyByUser(tokens, g.user.id)
               /\ LogRemoved(tokens, DeleteManyByUser(tokens, g.user.id), "logoutAll")
               /\ calls' = calls + 1
  /\ UNCHANGED <<users, nextUuid, config>>

logoutAll(r) == logoutAllOver(r, SessionHeaders)

\* the request arrives with a header of headers and passes authenticate;
\* lines 317-334: prisma.user.findUnique({where: {id}, select}) with
\* req.user.id, then the response
getMeOver(r, headers) ==
  /\ CanArrive(r)
  /\ \E h \in headers, now \in ClockValues :
       LET g == authenticate(h, now)
           q == Guarded("getMe", h, now)
           user == FindUserById(users, g.user.id)
       IN IF g.next = 0
          THEN /\ Arrive(r, q, TRUE, g.res)
               /\ calls' = calls
          ELSE /\ calls' = calls + 1
               /\ IF user.id = 0
                  THEN Arrive(r, q, TRUE, errorResponse("User not found", 404))
                  ELSE Arrive(r, q, TRUE,
                              successResponse(Select(user), NoRec, EmptyToken,
                                              "User profile retrieved", 200))
  /\ UNCHANGED <<users, tokens, nextUuid, removed, config>>

getMe(r) == getMeOver(r, SessionHeaders)

\* ------------------------------------------------------------ specification
Next ==
  \/ \E r \in Slots : RegisterFind(r)
  \/ \E r \in Slots : RegisterCreate(r)
  \/ \E r \in Slots : RegisterToken(r)
  \/ \E r \in Slots : LoginFind(r)
  \/ \E r \in Slots : LoginToken(r)
  \/ \E r \in Slots : RefreshFind(r)
  \/ \E r \in Slots : RefreshDelete(r)
  \/ \E r \in Slots : RefreshRotate(r)
  \/ \E r \in Slots : logout(r)
  \/ \E r \in Slots : logoutAll(r)
  \/ \E r \in Slots : getMe(r)

Spec == Init /\ [][Next]_vars

\* ------------------------------------------------- a database that can fail
\* the requests that reach their first store call
FirstCalls ==
  {[Idle EXCEPT !.op = "register", !.email = e, !.pw = Pw1] : e \in Emails}
    \cup {[Idle EXCEPT !.op = "login", !.email = e, !.pw = Pw1] : e \in Emails}
    \cup {[Idle EXCEPT !.op = o, !.tok = v] :
            o \in {"refresh", "logout"}, v \in TokenInputs \ {EmptyToken}}
    \cup {q \in {Guarded(o, h, now) : o \in {"logoutAll", "getMe"},
                                      h \in SessionHeaders, now \in ClockValues} :
            q.next = 1}

\* a request arrives and the database fails on its first store call: the
\* rejected await throws into the handler's catch, which calls next(error)
ArriveFault(r) ==
  /\ CanArrive(r)
  /\ \E q \in FirstCalls : Arrive(r, q, TRUE, errorHandler(StoreDown))
  /\ calls' = calls + 1
  /\ UNCHANGED <<users, tokens, nextUuid, removed, config>>

\* mutant of StepFault: a failure of the token write of register undoes the
\* account write
StepFaultRollback(r) ==
  /\ req[r].pc \in {"reg_create", "reg_token", "login_token", "ref_delete"}
  /\ Respond(r, errorHandler(StoreDown))
  /\ calls' = calls + 1
  /\ users' = IF req[r].pc = "reg_token"
              THEN {u \in users : u.id # req[r].snap.id}
              ELSE users
  /\ UNCHANGED <<tokens, nextUuid, removed, config>>

\* the database fails on the store call the handler in slot r is about to make
StepFault(r) ==
  /\ req[r].pc \in {"reg_create", "reg_token", "login_token", "ref_delete"}
  /\ Respond(r, errorHandler(StoreDown))
  /\ calls' = calls + 1
  /\ UNCHANGED <<users, tokens, nextUuid, removed, config>>

NextFault ==
  \/ Next
  \/ \E r \in Slots : RefreshRotateFault(r)
  \/ \E r \in Slots : ArriveFault(r)
  \/ \E r \in Slots : StepFault(r)

SpecFault == Init /\ [][NextFault]_vars

\* ------------------------------------------- every shape of body and header
NoEmail == <<>>
EmailNoAt == <<"a", "x", ".", "y">>
EmailNoDot == <<"a", "@", "x">>
EmailNoLocal == <<"@", "x", ".", "y">>
AllEmails == Emails \cup {NoEmail, EmailNoAt, EmailNoDot, EmailNoLocal}

NoPassword == <<>>
PwShort == <<"p", "a", "s", "s", "w", "o", "r">>
AllPasswords == Passwords \cup {NoPassword, PwShort}

RegisterFindAny(r) == RegisterFindOver(r, AllEmails \X AllPasswords)
LoginFindAny(r) ==
  LoginFindOver(r, (Emails \cup {NoEmail}) \X (Passwords \cup {NoPassword}))

\* register and login over every shape of body
NextInput ==
  \/ \E r \in Slots : RegisterFindAny(r)
  \/ \E r \in Slots : RegisterCreate(r)
  \/ \E r \in Slots : RegisterToken(r)
  \/ \E r \in Slots : LoginFindAny(r)
  \/ \E r \in Slots : LoginToken(r)

SpecInput == Init /\ [][NextInput]_vars

\* a request arrives at a route mounted behind optionalAuth and leaves the
\* middleware; what the route's handler answers is not part of this API
OptionalAuthRoute(r) ==
  /\ CanArrive(r)
  /\ \E h \in AllHeaders, now \in ClockValues :
       LET g == optionalAuth(h, now)
           q == [Idle EXCEPT !.op = "optional", !.hdr = h, !.sec = now \div UnitS,
                             !.uid = g.user.id, !.who = g.user, !.next = g.next]
       IN Arrive(r, q, TRUE, g.res)
  /\ UNCHANGED <<users, tokens, nextUuid, removed, calls, config>>

logoutAllAny(r) == logoutAllOver(r, AllHeaders)
getMeAny(r) == getMeOver(r, AllHeaders)

\* the guards and the routes behind them over every shape of header
NextGuard ==
  \/ \E r \in Slots : logoutAllAny(r)
  \/ \E r \in Slots : getMeAny(r)
  \/ \E r \in Slots : OptionalAuthRoute(r)

SpecGuard == Init /\ [][NextGuard]_vars

\* ------------------------------------------- every shape of lifetime string
\* values of the refresh lifetime setting: the forms the pattern of
\* parseDuration accepts, and forms it does not
DurationInputs ==
  {<<"0", "s">>, <<"1", "s">>, <<"2", "m">>, <<"1", "h">>, <<"1", "d">>,
   <<"0", "1", "s">>, <<"1", "0", "m">>,
   <<>>, <<"d">>, <<"1">>, <<"1", "x">>, <<"1", "D">>, <<"1", "d", "d">>}

\* the process is started with any of these settings
InitDuration == \E d \in DurationInputs : Start(d)

\* the operations that call getRefreshTokenExpiry
NextDuration ==
  \/ \E r \in Slots : RegisterFind(r)
  \/ \E r \in Slots : RegisterCreate(r)
  \/ \E r \in Slots : RegisterToken(r)
  \/ \E r \in Slots : LoginFind(r)
  \/ \E r \in Slots : LoginToken(r)
  \/ \E r \in Slots : RefreshFind(r)
  \/ \E r \in Slots : RefreshDelete(r)
  \/ \E r \in Slots : RefreshRotate(r)

SpecDuration == InitDuration /\ [][NextDuration]_vars

\* ------------------------------------------------------------------- claims
\* the error kind a response carries: its status code and message
Kind(res) ==
  CASE res.status \in {200, 201} -> "Success"
    [] res.status = 400 -> "InvalidInput"
    [] res.status = 401 /\ res.message \in {"Refresh token has expired",
                                             "Access token has expired"} -> "ExpiredCredential"
    [] res.status = 401 /\ res.message = "Access token is required" -> "MissingCredential"
    [] res.status = 401 /\ res.message \in {"Invalid token format. Use: Bearer <token>",
                                             "Invalid access token"} -> "MalformedCredential"
    [] res.status = 401 /\ res.message \in {"Invalid refresh token",
                                             "Invalid email or password"} -> "InvalidCredentials"
    [] res.status = 403 -> "AccountDisabled"
    [] res.status = 404 -> "NotFound"
    [] res.status = 409 -> "DuplicateEmail"
    [] res.status = 500 -> "StoreUnavailable"
    [] OTHER -> "Other"

IsSuccess(res) == Kind(res) = "Success"

\* the number of answered requests among the entries S
Count(S) == BagCardinality([e \in S |-> CopiesIn(e, done)])

\* the requests answered in this step, and the ones that arrive in this step
AnsweredNow == {e \in BagToSet(done') : CopiesIn(e, done') > CopiesIn(e, done)}
StartedNow == {r \in Slots : req[r].pc = "idle" /\ req'[r].pc # "idle"}
ArrivesNow(op, tok) ==
  /\ nreq' = nreq + 1
  /\ \/ \E e \in AnsweredNow : e.op = op /\ e.tok = tok
     \/ \E r \in StartedNow : req'[r].op = op /\ req'[r].tok = tok

RefreshCalls(v) == {e \in Answered : e.op = "refresh" /\ e.tok = v}
RefreshWins(v) == {e \in RefreshCalls(v) : IsSuccess(e.res)}
InflightRefresh(v) == {r \in Slots : req[r].op = "refresh" /\ req[r].tok = v}
Stored(v) == \E t \in tokens : t.token = v
RemovedBy(v) == {p[2] : p \in {x \in removed : x[1] = v}}

\* the refresh calls answered for v met nothing but each other: v was found
\* unexpired with an active owner by each call that read it, and no logout,
\* logoutAll or expiry deleted it
RaceOnly(v) ==
  /\ RemovedBy(v) \subseteq {"rotate"}
  /\ \A e \in RefreshCalls(v) :
       Kind(e.res) \notin {"ExpiredCredential", "AccountDisabled", "StoreUnavailable"}

\* C1: when the refresh calls presenting one valid long-lived token value
\* have all been answered, exactly one of them succeeded, and the rotation
\* stored exactly one new record for that value; no record is stored that
\* was not handed out
C1_ExactlyOneRefreshWins ==
  /\ \A v \in HeldTokens :
       (RefreshCalls(v) # {} /\ InflightRefresh(v) = {} /\ RaceOnly(v))
         => /\ Count(RefreshWins(v)) = 1
            /\ \A w \in RefreshWins(v) :
                 w.res.rt # v /\ (Stored(w.res.rt) \/ RemovedBy(w.res.rt) # {})
  /\ \A t \in tokens : t.token \in HeldTokens

\* three calls raced on one value: one won, two had read the record before
\* the winner committed
C1_Witness ==
  \E v \in HeldTokens :
    /\ InflightRefresh(v) = {} /\ RaceOnly(v)
    /\ Count(RefreshCalls(v)) = 3
    /\ Count(RefreshWins(v)) = 1
    /\ Count({e \in RefreshCalls(v) : e.res.status = 404}) = 2

\* C2: in a race of refresh calls on one valid long-lived token value every
\* call that does not succeed fails with InvalidCredentials
C2_LosersGetInvalidCredentials ==
  \A v \in HeldTokens :
    (RefreshWins(v) # {} /\ RaceOnly(v))
      => \A e \in RefreshCalls(v) :
           ~IsSuccess(e.res) => Kind(e.res) = "InvalidCredentials"

\* C3: a long-lived token value consumed by a successful refresh is gone
\* from the store and makes no second refresh succeed; the value issued in
\* its place differs from it; a refresh that arrives with a consumed value
\* is answered InvalidCredentials, without tokens and without touching the
\* store; and a refresh whose rotation finds its record still stored
\* succeeds
Consumed(v) == RefreshWins(v) # {}

RefusedNow(v) ==
  /\ \E e \in AnsweredNow :
       /\ e.op = "refresh" /\ e.tok = v
       /\ Kind(e.res) = "InvalidCredentials"
       /\ e.res.rt = EmptyToken /\ e.res.at = NoRec
  /\ tokens' = tokens /\ nextUuid' = nextUuid /\ users' = users

C3_OneShotConsumption ==
  /\ [](\A v \in HeldTokens :
          /\ Count(RefreshWins(v)) <= 1
          /\ Consumed(v) => ~Stored(v)
          /\ \A w \in RefreshWins(v) : w.res.rt # v)
  /\ [][\A v \in HeldTokens :
          (Consumed(v) /\ ArrivesNow("refresh", v)) => RefusedNow(v)]_vars
  /\ [][\A r \in Slots :
          (req[r].pc = "ref_tx" /\ req'[r].pc = "idle" /\ Stored(req[r].tok))
            => \E e \in AnsweredNow :
                 IsSuccess(e.res) /\ e.tok = req[r].tok /\ e.res.rt = req[r].newTok]_vars

\* register -> T0, refresh(T0) succeeds, refresh(T0) again is refused
C3_Witness ==
  \E g \in Answered :
    /\ g.op = "register" /\ IsSuccess(g.res)
    /\ Consumed(g.res.rt)
    /\ \E e \in RefreshCalls(g.res.rt) : Kind(e.res) = "InvalidCredentials"

\* C4: the step that ends a rotation either removes the old record and
\* stores the new one at once, or changes nothing
RotationEnds(r) == req[r].pc = "ref_tx" /\ req'[r].pc = "idle"
NewRecord(r) == TokenRecord(req[r].newTok, req[r].snap.userId, req[r].exp)

RotationApplied(r) ==
  /\ \E e \in AnsweredNow : IsSuccess(e.res) /\ e.res.rt = req[r].newTok
  /\ req[r].snap \in tokens
  /\ tokens' = (tokens \ {req[r].snap}) \cup {NewRecord(r)}

RotationRejected(r) ==
  /\ \E e \in AnsweredNow : ~IsSuccess(e.res) /\ e.res.rt = EmptyToken
  /\ tokens' = tokens

\* C4 as amended: a rotation is applied whole or not at all; no state holds
\* the new record before the rotation commits or the old one after it; a
\* rotation that fails on its delete or on its insert leaves the store as
\* it was, the old record stored exactly if it was stored before
C4_RotationAllOrNothing ==
  /\ [][\A r \in Slots :
          RotationEnds(r) => (RotationApplied(r) \/ RotationRejected(r))]_vars
  /\ [](\A r \in Slots : req[r].pc = "ref_tx" => ~Stored(req[r].newTok))
  /\ [](\A e \in Answered : (e.op = "refresh" /\ IsSuccess(e.res)) => ~Stored(e.tok))

\* a rotation failed on a statement of its transaction after another one
\* was applied, and its old record is still stored
C4_Witness ==
  \E e \in Answered :
    /\ e.op = "refresh" /\ Kind(e.res) = "StoreUnavailable"
    /\ Stored(e.tok)
    /\ \E w \in Answered : w.op = "refresh" /\ IsSuccess(w.res) /\ w.tok # e.tok

\* C4 as claimed: after a rotation whose delete or insert failed, the old
\* record is still present and the new one absent
C4_FailedRotationKeepsOld ==
  [][\A r \in Slots :
       (RotationEnds(r) /\ \E e \in AnsweredNow : ~IsSuccess(e.res))
         => (req[r].snap \in tokens' /\ NewRecord(r) \notin tokens')]_vars

\* C5: a refresh that read a stored record past its expiry is answered
\* ExpiredCredential without tokens and the record is deleted; a refresh that
\* arrives later with that value is answered InvalidCredentials
C5_ExpiredRefresh ==
  /\ [][\A r \in Slots :
          (req[r].pc = "ref_delete" /\ req'[r].pc = "idle")
            => /\ \E e \in AnsweredNow :
                    Kind(e.res) = "ExpiredCredential" /\ e.res.rt = EmptyToken
               /\ req[r].snap \notin tokens']_vars
  /\ [](\A r \in Slots :
          /\ req[r].pc = "ref_delete" => req[r].t > req[r].snap.expiresAt
          /\ req[r].pc = "ref_tx" => ~(req[r].t > req[r].snap.expiresAt))
  /\ [][\A v \in HeldTokens :
          ("expired" \in RemovedBy(v) /\ ArrivesNow("refresh", v)) => RefusedNow(v)]_vars

\* C6: once logout(T) has been answered, a refresh that arrives with T is
\* answered InvalidCredentials, without tokens and without touching the store
LoggedOut(v) == \E e \in Answered : e.op = "logout" /\ e.tok = v /\ IsSuccess(e.res)

C6_RefreshAfterLogout ==
  [][\A v \in TokenInputs :
       (LoggedOut(v) /\ ArrivesNow("refresh", v)) => RefusedNow(v)]_vars

\* logout deleted the record of a held value, and a refresh with it was refused
C6_Witness ==
  \E v \in HeldTokens :
    /\ LoggedOut(v) /\ "logout" \in RemovedBy(v)
    /\ \E e \in RefreshCalls(v) : Kind(e.res) = "InvalidCredentials"

\* C7 as claimed: logout reports success for every value supplied
C7_LogoutAlwaysSucceeds ==
  \A e \in Answered : e.op = "logout" => IsSuccess(e.res)

\* C7 as amended: logout with a non-empty value reports success and removes
\* exactly the records with that value, so that a second logout with it
\* changes nothing; logout with an empty value is answered InvalidInput and
\* changes nothing
C7_LogoutIdempotent ==
  [][\A e \in AnsweredNow : e.op = "logout" =>
       /\ users' = users /\ nextUuid' = nextUuid
       /\ IF e.tok = EmptyToken
          THEN Kind(e.res) = "InvalidInput" /\ tokens' = tokens
          ELSE /\ IsSuccess(e.res)
               /\ tokens' = {t \in tokens : t.token # e.tok}
               /\ LoggedOut(e.tok) => tokens' = tokens]_vars

\* logout was answered twice for a value whose record the first one deleted
C7_Witness ==
  \E v \in HeldTokens :
    /\ "logout" \in RemovedBy(v)
    /\ Count({e \in Answered : e.op = "logout" /\ e.tok = v /\ IsSuccess(e.res)}) = 2

\* C8: logoutAll leaves no record of the owner in the store; a value it
\* deleted makes no refresh succeed, and a refresh that arrives with it is
\* answered InvalidCredentials
C8_LogoutAllRevokes ==
  /\ [][\A e \in AnsweredNow : (e.op = "logoutAll" /\ e.next = 1) =>
          /\ IsSuccess(e.res)
          /\ \A t \in tokens : t.userId = e.uid =>
               (t \notin tokens' /\ <<t.token, "logoutAll">> \in removed')]_vars
  /\ [](\A v \in HeldTokens :
          "logoutAll" \in RemovedBy(v) => (RefreshWins(v) = {} /\ ~Stored(v)))
  /\ [][\A v \in HeldTokens :
          ("logoutAll" \in RemovedBy(v) /\ ArrivesNow("refresh", v)) => RefusedNow(v)]_vars

\* the two sessions of one account were revoked by logoutAll, and a refresh
\* with each of the two values was refused
C8_Witness ==
  \E e \in Answered :
    /\ e.op = "logoutAll" /\ IsSuccess(e.res)
    /\ \E v1, v2 \in HeldTokens :
         /\ v1 # v2
         /\ \A v \in {v1, v2} :
              /\ "logoutAll" \in RemovedBy(v)
              /\ \E c \in RefreshCalls(v) : Kind(c.res) = "InvalidCredentials"

\* letters and letter case, as the claims speak of them
UpperOf(c) ==
  CASE c = "a" -> "A"
    [] c = "b" -> "B"
    [] c = "x" -> "X"
    [] c = "y" -> "Y"
    [] OTHER -> c

SameUpToCase(a, b) ==
  /\ Len(a) = Len(b)
  /\ \A i \in 1..Len(a) : UpperOf(a[i]) = UpperOf(b[i])

IsLowerCase(a) == \A i \in 1..Len(a) : a[i] \notin {"A", "B", "X", "Y"}

RegisterCalls(m) ==
  {e \in Answered : e.op = "register" /\ SameUpToCase(e.email, m)
                       /\ Kind(e.res) # "InvalidInput"}
InflightRegister(m) ==
  {r \in Slots : req[r].op = "register" /\ SameUpToCase(req[r].email, m)}
Accounts(m) == {u \in users : SameUpToCase(u.email, m)}

\* a register call with a well-formed body and the e-mail m arrives
RegisterArrivesNow(m) ==
  /\ nreq' = nreq + 1
  /\ \/ \E e \in AnsweredNow :
          e.op = "register" /\ e.email = m /\ Kind(e.res) # "InvalidInput"
     \/ \E r \in StartedNow : req'[r].op = "register" /\ req'[r].email = m

\* C9: when the register calls for one e-mail have all been answered,
\* exactly one account exists for it, at most one call succeeded and every
\* other call failed with DuplicateEmail
C9_OneAccountPerEmail ==
  \A m \in Emails :
    /\ Cardinality(Accounts(m)) <= 1
    /\ Count({e \in RegisterCalls(m) : IsSuccess(e.res)}) <= 1
    /\ (RegisterCalls(m) # {} /\ InflightRegister(m) = {})
         => /\ Cardinality(Accounts(m)) = 1
            /\ \A e \in RegisterCalls(m) :
                 ~IsSuccess(e.res) => Kind(e.res) = "DuplicateEmail"

\* two register calls for one e-mail both passed the pre-check; one created
\* the account, the other was refused by the unique index
C9_Witness ==
  \E m \in Emails :
    /\ InflightRegister(m) = {}
    /\ Count({e \in RegisterCalls(m) : IsSuccess(e.res)}) = 1
    /\ \E e \in RegisterCalls(m) :
         e.res.message = "A record with this value already exists"

\* C10: every stored e-mail is lower case and no two accounts differ by
\* case only; a register that arrives with an e-mail equal, up to case, to a
\* stored one is answered DuplicateEmail and creates no account and no token
\* record
C10_CaseInsensitiveDuplicate ==
  /\ [](\A u \in users : IsLowerCase(u.email))
  /\ [](\A u1, u2 \in users : SameUpToCase(u1.email, u2.email) => u1 = u2)
  /\ [][\A m \in Emails :
          (Accounts(m) # {} /\ RegisterArrivesNow(m))
            => /\ \E e \in AnsweredNow :
                    e.op = "register" /\ e.email = m /\ Kind(e.res) = "DuplicateEmail"
               /\ StartedNow = {}
               /\ users' = users /\ tokens' = tokens /\ nextUuid' = nextUuid]_vars

\* a@x.y is registered and a register with A@x.y was refused by the pre-check
C10_Witness ==
  /\ \E e \in Answered :
       e.op = "register" /\ e.email = EmailLowerA /\ IsSuccess(e.res)
  /\ \E e \in Answered :
       /\ e.op = "register" /\ e.email = EmailUpperA
       /\ e.res.message = "User with this email already exists"

\* the request bodies and headers that arrive in this step, answered in it or not
ArrivingNow ==
  IF nreq' = nreq + 1
  THEN AnsweredNow \cup {[op |-> req'[r].op, email |-> req'[r].email, pw |-> req'[r].pw,
                           tok |-> req'[r].tok, hdr |-> req'[r].hdr, sec |-> req'[r].sec,
                           uid |-> req'[r].uid, who |-> req'[r].who,
                           next |-> req'[r].next, live |-> req'[r].live,
                           t |-> req'[r].t,
                           res |-> NoRes] :
                            r \in StartedNow}
  ELSE {}

StoreUnchanged == users' = users /\ tokens' = tokens /\ nextUuid' = nextUuid

\* an e-mail of the shape local@domain: one "@" with text on both sides
LocalAtDomain(m) ==
  \E i \in 2..(Len(m) - 1) : m[i] = "@" /\ \A j \in 1..Len(m) : m[j] = "@" => j = i

BadRegisterBody(e) ==
  \/ Len(e.email) = 0 \/ Len(e.pw) = 0
  \/ ~LocalAtDomain(e.email)
  \/ Len(e.pw) < 8

\* C11: a register that arrives with a missing e-mail or password, an
\* e-mail not of the shape local@domain or a password of fewer than 8
\* characters is answered InvalidInput in the same step, with no store call
\* made and the store unchanged
C11_RegisterRejectsBadInput ==
  [][\A e \in ArrivingNow :
       (e.op = "register" /\ BadRegisterBody(e))
         => /\ Kind(e.res) = "InvalidInput"
            /\ calls' = calls
            /\ StoreUnchanged]_vars

\* a register with no e-mail, one with an e-mail without "@" and one with a
\* 7-character password were answered, and no store call has been made
C11_Witness ==
  /\ calls = 0
  /\ \E e \in Answered : e.op = "register" /\ e.email = NoEmail /\ e.res.status = 400
  /\ \E e \in Answered : e.op = "register" /\ e.email = EmailNoAt /\ e.res.status = 400
  /\ \E e \in Answered :
       e.op = "register" /\ e.email = EmailLowerA /\ e.pw = PwShort /\ e.res.status = 400

\* an e-mail and a password that register accepts: local@domain with a dot
\* inside the domain and no blank, 8 characters or more
GoodRegisterBody(e) ==
  /\ LocalAtDomain(e.email)
  /\ \E i \in 1..Len(e.email) :
       /\ e.email[i] = "@"
       /\ \E j \in (i + 2)..(Len(e.email) - 1) : e.email[j] = "."
  /\ \A i \in 1..Len(e.email) : e.email[i] # " "
  /\ Len(e.pw) >= 8

Registered == {g \in Answered : g.op = "register" /\ IsSuccess(g.res)}
LoggedIn == {l \in Answered : l.op = "login" /\ IsSuccess(l.res)}
SameCredentials(g, l) == SameUpToCase(g.email, l.email) /\ g.pw = l.pw
OwnedBy(v, id) == \E t \in tokens : t.token = v /\ t.userId = id

\* C12: a register with a valid body is accepted by the validation; once it
\* has succeeded, a login that arrives with the same password and the same
\* e-mail in any letter case goes on to succeed; the two calls stored two
\* different long-lived token records owned by the created account, and
\* their short-lived tokens verify and carry the id of that account
C12_RegisterThenLogin ==
  /\ [][\A e \in ArrivingNow :
          (e.op = "register" /\ GoodRegisterBody(e) /\ Accounts(e.email) = {})
            => (e.res = NoRes /\ \E r \in StartedNow : req'[r].email = e.email)]_vars
  /\ [][\A e \in ArrivingNow :
          (e.op = "login" /\ \E g \in Registered : SameCredentials(g, e))
            => (e.res = NoRes /\ \E r \in StartedNow : req'[r].email = e.email)]_vars
  /\ [][\A r \in Slots :
          (req[r].op = "login" /\ req'[r].op = "none")
            => \E l \in AnsweredNow :
                 /\ l.op = "login" /\ l.email = req[r].email /\ IsSuccess(l.res)
                 /\ ~Stored(l.res.rt)]_vars
  /\ [](\A g \in Registered :
          /\ GoodRegisterBody(g)
          /\ \E u \in Accounts(g.email) :
               /\ g.res.at.id = u.id /\ g.res.user.id = u.id
               /\ OwnedBy(g.res.rt, u.id)
          /\ verifyAccessToken(g.res.at, g.res.at.iat * UnitS).ok
          /\ \A l \in LoggedIn :
               SameCredentials(g, l)
                 => /\ l.res.at.id = g.res.at.id /\ l.res.user.id = g.res.at.id
                    /\ l.res.rt # g.res.rt
                    /\ OwnedBy(l.res.rt, g.res.at.id)
                    /\ verifyAccessToken(l.res.at, l.res.at.iat * UnitS).ok)

\* A@x.y was registered and a login with a@x.y and the same password
\* succeeded for the same account with another long-lived token
C12_Witness ==
  \E g \in Registered, l \in LoggedIn :
    /\ g.email = EmailUpperA /\ l.email = EmailLowerA /\ g.pw = Pw2 /\ l.pw = Pw2
    /\ l.res.at.id = g.res.at.id /\ l.res.rt # g.res.rt
    /\ OwnedBy(l.res.rt, g.res.at.id) /\ OwnedBy(g.res.rt, g.res.at.id)

\* C13: a login with a password that matches no account of its e-mail is
\* answered InvalidCredentials, whether an account exists for the e-mail
\* (active or not) or none does
PasswordMatches(e) == \E u \in Accounts(e.email) : u.password = <<"bcrypt", e.pw>>

C13_LoginHidesAccounts ==
  \A e \in Answered :
    (e.op = "login" /\ Len(e.email) > 0 /\ Len(e.pw) > 0 /\ ~PasswordMatches(e))
      => Kind(e.res) = "InvalidCredentials"

\* C14: while an account is inactive, a login with its password and a
\* refresh with an unexpired stored token of it are answered AccountDisabled
\* with no tokens, no record created and the presented record kept; a
\* refresh that found an expired token of it is answered ExpiredCredential
\* and leaves no record of the token
Inactive(id) == \E u \in users : u.id = id /\ ~u.isActive
NoTokens(res) == res.rt = EmptyToken /\ res.at = NoRec

C14_InactiveLogin ==
  [][\A e \in ArrivingNow :
       (e.op = "login" /\ PasswordMatches(e)
          /\ \E u \in Accounts(e.email) : Inactive(u.id))
         => /\ Kind(e.res) = "AccountDisabled"
            /\ NoTokens(e.res) /\ StoreUnchanged]_vars

C14_InactiveRefresh ==
  [][\A e \in ArrivingNow :
       (e.op = "refresh"
          /\ \E rec \in tokens :
               rec.token = e.tok /\ Inactive(rec.userId) /\ ~(e.t > rec.expiresAt))
         => /\ Kind(e.res) = "AccountDisabled"
            /\ NoTokens(e.res) /\ StoreUnchanged]_vars

C14_InactiveExpired ==
  [][\A r \in Slots :
       (req[r].op = "refresh" /\ req'[r].op = "none"
          /\ Inactive(req[r].snap.userId) /\ req[r].t > req[r].snap.expiresAt)
         => /\ \E e \in AnsweredNow :
                 /\ e.op = "refresh" /\ e.tok = req[r].tok
                 /\ Kind(e.res) = "ExpiredCredential" /\ NoTokens(e.res)
            /\ \A rec \in tokens' : rec.token # req[r].tok]_vars

C14_InactiveAccountsRejected ==
  C14_InactiveLogin /\ C14_InactiveRefresh /\ C14_InactiveExpired

\* the requests answered on the routes behind authenticate
GuardedCalls == {e \in Answered : e.op \in {"logoutAll", "getMe"}}

\* a header of the exact shape Bearer <token>, and what its token says
ExactShape(h) == Len(h) = 2 /\ h[1] = "Bearer" /\ h[2].sig # ""
Signed(h) == h[2].sig = "secret"
PastExpiry(e) == e.sec >= e.hdr[2].exp

\* C15: authenticate answers MissingCredential to an absent header,
\* MalformedCredential to a present header of another shape than
\* Bearer <token>, ExpiredCredential to a well-formed token past its expiry;
\* a request it refuses has no identity and does not proceed; a request it
\* lets through has the identity {ownerId, email} of its verified token
C15_AuthenticateExactShape ==
  \A e \in GuardedCalls :
    /\ e.hdr = NoHeader => Kind(e.res) = "MissingCredential"
    /\ (e.hdr # NoHeader /\ ~ExactShape(e.hdr)) => Kind(e.res) = "MalformedCredential"
    /\ (ExactShape(e.hdr) /\ Signed(e.hdr) /\ PastExpiry(e))
         => Kind(e.res) = "ExpiredCredential"
    /\ Kind(e.res) \in {"MissingCredential", "MalformedCredential", "ExpiredCredential"}
         => (e.next = 0 /\ e.who = NoUser)
    /\ e.next = 1
         => /\ ExactShape(e.hdr) /\ Signed(e.hdr) /\ ~PastExpiry(e)
            /\ e.who = [id |-> e.hdr[2].id, email |-> e.hdr[2].email]

\* the requests that went through optionalAuth
OptionalCalls == {e \in Answered : e.op = "optional"}

\* C16: optionalAuth sends no response and calls next() exactly once for
\* every header; the identity it attaches is the one authenticate attaches
\* to the same header at the same time, and none when authenticate refuses
C16_OptionalAuthNeverFails ==
  \A e \in OptionalCalls :
    /\ e.next = 1 /\ e.res = NoRes
    /\ e.who = authenticate(e.hdr, e.sec * UnitS).user
    /\ \A g \in GuardedCalls :
         (g.hdr = e.hdr /\ g.sec = e.sec) => (g.next = 1 <=> e.who # NoUser)

\* optionalAuth let an expired token through without identity and a fresh
\* one with its identity, and authenticate refused the expired one
C16_Witness ==
  /\ \E e \in OptionalCalls :
       e.hdr = <<"Bearer", SeedAccess>> /\ e.sec = 1 /\ e.who = NoUser /\ e.next = 1
  /\ \E e \in OptionalCalls :
       e.hdr = <<"Bearer", LateAccess>> /\ e.who = [id |-> 1, email |-> EmailB]
  /\ \E g \in GuardedCalls :
       g.hdr = <<"Bearer", SeedAccess>> /\ g.sec = 1 /\ Kind(g.res) = "ExpiredCredential"

\* C17: a refresh whose token record was deleted by logout or logoutAll
\* after it read the record ends its rotation answered InvalidCredentials,
\* with no tokens, and leaves no record of the token and none of its own
DeletedInFlight(r) ==
  /\ req[r].snap \notin tokens
  /\ RemovedBy(req[r].tok) \cap {"logout", "logoutAll"} # {}

C17_RefreshLosesToLogout ==
  [][\A r \in Slots :
       (RotationEnds(r) /\ DeletedInFlight(r))
         => /\ \E e \in AnsweredNow :
                 /\ e.op = "refresh" /\ e.tok = req[r].tok
                 /\ Kind(e.res) = "InvalidCredentials" /\ NoTokens(e.res)
            /\ \A rec \in tokens' : rec.token \notin {req[r].tok, req[r].newTok}]_vars

\* the part of C17 that holds: such a refresh fails without tokens and
\* leaves no record of the token and none of its own
C17_StoreKeptClean ==
  [][\A r \in Slots :
       (RotationEnds(r) /\ DeletedInFlight(r))
         => /\ \E e \in AnsweredNow :
                 e.op = "refresh" /\ e.tok = req[r].tok /\ ~IsSuccess(e.res) /\ NoTokens(e.res)
            /\ \A rec \in tokens' : rec.token \notin {req[r].tok, req[r].newTok}]_vars

\* C18: the account object of every response carries the id, the e-mail,
\* the names and the active flag of a stored account and no password hash;
\* the payload of every short-lived token carries no password hash either
AccountFields == {"id", "email", "firstName", "lastName", "isActive"}

C18_NoCredentialHashInOutput ==
  \A e \in Answered :
    /\ e.res.user # NoRec
         => /\ DOMAIN e.res.user \subseteq AccountFields
            /\ \E u \in users :
                 \A f \in DOMAIN e.res.user : e.res.user[f] = u[f]
    /\ e.res.at # NoRec => "password" \notin DOMAIN e.res.at
    /\ IsSuccess(e.res) /\ e.op \in {"register", "login", "getMe"} => e.res.user # NoRec

\* a register, a login and a profile lookup have each returned an account
C18_Witness ==
  \A op \in {"register", "login", "getMe"} :
    \E e \in Answered :
      e.op = op /\ IsSuccess(e.res) /\ DOMAIN e.res.user = AccountFields

\* C19: over a database that can fail, every response carries a kind of
\* the taxonomy, a response that reports success has its store effect
\* applied, and no message is the text of a store error
StoreTexts ==
  {"Can't reach database server", "Unique constraint failed",
   "Record to delete does not exist"}
Kinds ==
  {"Success", "InvalidInput", "DuplicateEmail", "InvalidCredentials",
   "AccountDisabled", "ExpiredCredential", "MalformedCredential",
   "MissingCredential", "NotFound", "StoreUnavailable"}
WasStored(v) == Stored(v) \/ RemovedBy(v) # {}

C19_Typed ==
  \A e \in Answered :
    /\ Kind(e.res) \in Kinds
    /\ e.res.status = 500 => Kind(e.res) = "StoreUnavailable"
    /\ (IsSuccess(e.res) /\ e.op \in {"register", "login", "refresh"})
         => WasStored(e.res.rt)
    /\ (IsSuccess(e.res) /\ e.op = "register") => Accounts(e.email) # {}

C19_NoStoreDetail == \A e \in Answered : e.res.message \notin StoreTexts

C19_StoreFailuresTyped == C19_Typed /\ C19_NoStoreDetail

\* C20: what authenticate answers to a header depends on the signature and
\* the expiry of its token alone: a signed token is let through exactly
\* until its expiry, two requests with the same header at the same clock
\* second get the same answer whatever the store holds, and the guard
\* makes no store call
C20_StatelessVerification ==
  /\ [](\A e \in GuardedCalls :
          /\ (ExactShape(e.hdr) /\ Signed(e.hdr)) => (e.next = 1 <=> ~PastExpiry(e))
          /\ \A g \in GuardedCalls :
               (g.hdr = e.hdr /\ g.sec = e.sec)
                 => (g.next = e.next /\ g.who = e.who
                       /\ (e.next = 0 => g.res = e.res)))
  /\ [][\A e \in ArrivingNow :
          e.op \in {"logoutAll", "getMe"} => calls' = calls + e.next]_vars

\* the long-lived tokens issued together with short-lived token a
Companions(a) ==
  {e.res.rt : e \in {d \in Answered : d.res.at = a}}
    \cup (IF a = SeedAccess THEN SeedTokens ELSE {})

\* a short-lived token authenticated when its owner had no session left in
\* the store, its companion long-lived tokens deleted by logout, logoutAll
\* or rotation
C20_Witness ==
  \E e \in GuardedCalls :
    /\ e.next = 1 /\ e.live = 0 /\ IsSuccess(e.res)
    /\ Companions(e.hdr[2]) # {}
    /\ \A v \in Companions(e.hdr[2]) :
         ~Stored(v) /\ RemovedBy(v) \cap {"logout", "logoutAll", "rotate"} # {}

\* C21: a register, a login or a refresh that reports success does so in a
\* state whose store holds a record with the long-lived token value of the
\* response, owned by the account its short-lived token names; for refresh
\* the record of the value presented is gone in that state
IssuingOps == {"register", "login", "refresh"}

C21_ResponseAfterPersist ==
  [][\A e \in AnsweredNow :
       (e.op \in IssuingOps /\ IsSuccess(e.res))
         => /\ \E rec \in tokens' :
                 rec.token = e.res.rt /\ rec.userId = e.res.at.id
            /\ \E u \in users' : u.id = e.res.at.id
            /\ e.op = "refresh" => \A rec \in tokens' : rec.token # e.tok]_vars

\* a register, a login and a refresh have each reported success over a
\* database that can fail, and the three values they returned are stored
C21_Witness ==
  \A op \in IssuingOps :
    \E e \in Answered :
      /\ e.op = op /\ IsSuccess(e.res)
      /\ OwnedBy(e.res.rt, e.res.at.id)

\* C22: logout removes only records with the value presented, logoutAll
\* removes only records owned by the identity of its verified short-lived
\* token, and neither adds or changes a record; an account record is added
\* only by a register step, one at a time, and none is changed or deleted
C22_ScopedRevocation ==
  /\ [][\A e \in AnsweredNow :
          /\ e.op = "logout"
               => /\ tokens' \subseteq tokens
                  /\ \A rec \in tokens \ tokens' : rec.token = e.tok
          /\ e.op = "logoutAll"
               => /\ tokens' \subseteq tokens
                  /\ \A rec \in tokens \ tokens' :
                       /\ e.next = 1
                       /\ rec.userId = e.hdr[2].id]_vars
  /\ [][/\ users \subseteq users'
        /\ users' # users
             => \E r \in Slots :
                  /\ req[r].op = "register"
                  /\ \E u \in users' : users' = users \cup {u} /\ SameUpToCase(u.email, req[r].email)]_vars

\* after a register opened a session of a second account, logout removed
\* one session of the first account and logoutAll by the second account
\* removed its session; the other session of the first account is stored
C22_Witness ==
  \E v1, v2 \in SeedTokens, g \in Registered :
    /\ v1 # v2
    /\ "logout" \in RemovedBy(v1)
    /\ "logoutAll" \in RemovedBy(g.res.rt)
    /\ Stored(v2)
    /\ Cardinality(users) = 2

\* C23: a successful refresh replaces the record of the value presented by
\* one new record with a value never seen before and the same owner, so the
\* owner has as many records as before and every other record is unchanged;
\* a successful login or register adds one record with a new value to the
\* account it answers for and removes none; no two records share a value
KnownValues ==
  {t.token : t \in tokens} \cup HeldTokens \cup {x[1] : x \in removed}

RecordsOf(ts, id) == {t \in ts : t.userId = id}

C23_RotationOneForOne ==
  /\ [](\A t1, t2 \in tokens : t1.token = t2.token => t1 = t2)
  /\ [][\A e \in AnsweredNow :
          IsSuccess(e.res) =>
            /\ e.op = "refresh"
                 => \E old \in tokens, new \in tokens' :
                      /\ old.token = e.tok
                      /\ new.token = e.res.rt
                      /\ new.token \notin KnownValues
                      /\ new.userId = old.userId
                      /\ new.userId = e.res.at.id
                      /\ tokens' = (tokens \ {old}) \cup {new}
                      /\ \A id \in {u.id : u \in users} :
                           Cardinality(RecordsOf(tokens', id))
                             = Cardinality(RecordsOf(tokens, id))
            /\ e.op \in {"login", "register"}
                 => \E new \in tokens' :
                      /\ new.token = e.res.rt
                      /\ new.token \notin KnownValues
                      /\ new.userId = e.res.at.id
                      /\ new \notin tokens
                      /\ tokens' = tokens \cup {new}
                      /\ Cardinality(tokens') = Cardinality(tokens) + 1]_vars

\* a refresh, a login and a register succeeded; the value the refresh was
\* given is gone, the three values issued are stored and the other session
\* of the refreshing account is still stored
C23_Witness ==
  \E f \in Answered, l \in LoggedIn, g \in Registered, v \in SeedTokens :
    /\ f.op = "refresh" /\ IsSuccess(f.res)
    /\ ~Stored(f.tok) /\ f.tok \in SeedTokens /\ v # f.tok
    /\ Stored(v)
    /\ OwnedBy(f.res.rt, f.res.at.id)
    /\ OwnedBy(l.res.rt, l.res.at.id)
    /\ OwnedBy(g.res.rt, g.res.at.id)
    /\ Cardinality(tokens) = 4

\* the register in slot r is answered with an error by the step that makes
\* its token write, after its account write was applied
FailsAtToken(r) ==
  /\ req[r].pc = "reg_token"
  /\ req'[r].pc = "idle"
  /\ \E e \in AnsweredNow : e.op = "register" /\ ~IsSuccess(e.res)

\* the accounts left by a register that failed at its token write: created
\* by a register, which neither succeeded nor is still to make the write
Orphans ==
  {u \in users :
     /\ u.id # 1
     /\ \A g \in Registered : g.res.at.id # u.id
     /\ \A r \in Slots : ~(req[r].pc = "reg_token" /\ req[r].snap.id = u.id)}

DigitString == <<"0", "1", "2", "3", "4", "5", "6", "7", "8", "9">>
ValueOfDigit(c) == (CHOOSE i \in 1..10 : DigitString[i] = c) - 1
IsDigit(c) == \E i \in 1..10 : DigitString[i] = c

RECURSIVE DecimalValue(_, _)
DecimalValue(ds, acc) ==
  IF ds = <<>> THEN acc
  ELSE DecimalValue(Tail(ds), 10 * acc + ValueOfDigit(Head(ds)))

WellFormedLifetime(d) ==
  /\ Len(d) >= 2
  /\ \A i \in 1..(Len(d) - 1) : IsDigit(d[i])
  /\ d[Len(d)] = "s" \/ d[Len(d)] = "m" \/ d[Len(d)] = "h" \/ d[Len(d)] = "d"

MillisecondsOf(d) ==
  DecimalValue(SubSeq(d, 1, Len(d) - 1), 0)
    * (CASE d[Len(d)] = "s" -> 1000
         [] d[Len(d)] = "m" -> 60000
         [] d[Len(d)] = "h" -> 3600000
         [] d[Len(d)] = "d" -> 86400000)

\* C25: with a refresh lifetime setting of the form <digits><s|m|h|d>,
\* parseDuration gives digits times 1000, 60000, 3600000 or 86400000, and
\* every register, login or refresh that succeeds stores, in the step that
\* answers it, one new record whose expiresAt is the clock value that call
\* read plus that lifetime, whatever the expiresAt of the record a refresh
\* replaces; no record is stored in any other way
C25_ExpiryFromIssuance ==
  /\ [](WellFormedLifetime(config.refreshExpiresIn)
          => parseDuration(config.refreshExpiresIn)
               = MillisecondsOf(config.refreshExpiresIn))
  /\ [][WellFormedLifetime(config.refreshExpiresIn) =>
          /\ \A e \in AnsweredNow :
               (e.op \in IssuingOps /\ IsSuccess(e.res))
                 => \E new \in tokens' \ tokens :
                      /\ new.token = e.res.rt
                      /\ e.t \in ClockValues
                      /\ new.expiresAt = e.t + MillisecondsOf(config.refreshExpiresIn)
          /\ \A new \in tokens' \ tokens :
               \E e \in AnsweredNow :
                 /\ e.op \in IssuingOps /\ IsSuccess(e.res)
                 /\ new.token = e.res.rt
                 /\ new.expiresAt = e.t + MillisecondsOf(config.refreshExpiresIn)]_vars

\* with a lifetime of two minutes, a register, a login and a refresh
\* succeeded after the start of the clock; the record the refresh stored
\* expires two minutes after the refresh, later than the session it replaced
\* would have and later than the other session of the account does
C25_Witness ==
  \E f \in Answered, l \in LoggedIn, g \in Registered :
    /\ config.refreshExpiresIn = <<"2", "m">>
    /\ f.op = "refresh" /\ IsSuccess(f.res) /\ f.t > 0 /\ l.t > 0 /\ g.t > 0
    /\ \E new, other \in tokens :
         /\ new.token = f.res.rt /\ new.expiresAt = f.t + 120000
         /\ other.token \in SeedTokens /\ other.expiresAt = 120000
         /\ new.expiresAt > other.expiresAt
    /\ \E t \in tokens : t.token = l.res.rt /\ t.expiresAt = l.t + 120000
    /\ \E t \in tokens : t.token = g.res.rt /\ t.expiresAt = g.t + 120000

====
